---- MODULE Spec2Model ----
(***************************************************************************)
(* Model of src/handler.py: the RunPod serverless vocal-removal handler.   *)
(*                                                                         *)
(* The scratch root /tmp/vocal_removal is the variable fs, a function from *)
(* paths to file-system entries.  A path is a sequence of names relative   *)
(* to the scratch root and a name is a sequence of characters (one-char    *)
(* strings, or longer literal tokens of the source that hold no dot).      *)
(* File contents are sequences of bytes (0..255), text payloads are        *)
(* sequences of characters.  Jobs of the set Jobs run handler() once each  *)
(* and interleave at the granularity of handler's calls.                   *)
(***************************************************************************)
EXTENDS Integers, Sequences, FiniteSets, TLC

(* ------------------------------ bounds ------------------------------- *)
\* last second of the wall clock the model lets time advance to
MaxClock == 1

\* longest text given to the codec on its own
MaxTextLen == 4

Jobs == {"j1", "j2"}

Other(j) == CHOOSE k \in Jobs : k # j

(* --------------------------- small helpers --------------------------- *)
Range(s) == {s[i] : i \in 1..Len(s)}

\* the Python value None, where the source holds a path or a text
None == <<>>

(* ------------------------- base64 (lines 71, 87) --------------------- *)
\* the base64 alphabet, in value order
B64Alphabet ==
    << "A","B","C","D","E","F","G","H","I","J","K","L","M","N","O","P",
       "Q","R","S","T","U","V","W","X","Y","Z","a","b","c","d","e","f",
       "g","h","i","j","k","l","m","n","o","p","q","r","s","t","u","v",
       "w","x","y","z","0","1","2","3","4","5","6","7","8","9","+","/" >>

\* characters that are not ASCII, written as tokens
NonAscii == {"U+00E9"}

IsB64Char(c) == \E i \in 1..64 : B64Alphabet[i] = c

B64Val(c) == (CHOOSE i \in 1..64 : B64Alphabet[i] = c) - 1

\* binascii.a2b_base64 in the non-strict mode base64.b64decode uses:
\* characters outside the alphabet are skipped, a complete pad sequence
\* stops the parse, and an incomplete last quad is an error.
\* st = [q |-> position in the quad, left |-> pending bits, pads |-> pad
\* characters seen in a row, out |-> bytes so far, stop |-> parse ended]
B64Step(st, c) ==
    IF st.stop THEN st
    ELSE IF c = "=" THEN
        IF st.q >= 2 /\ st.q + st.pads + 1 >= 4
        THEN [st EXCEPT !.stop = TRUE, !.q = 0]
        ELSE IF st.q >= 2 THEN [st EXCEPT !.pads = st.pads + 1] ELSE st
    ELSE IF ~IsB64Char(c) THEN st
    ELSE LET v == B64Val(c) IN
         CASE st.q = 0 -> [st EXCEPT !.q = 1, !.left = v, !.pads = 0]
           [] st.q = 1 -> [st EXCEPT !.q = 2, !.left = v % 16, !.pads = 0,
                              !.out = Append(st.out, (st.left * 4) + (v \div 16))]
           [] st.q = 2 -> [st EXCEPT !.q = 3, !.left = v % 4, !.pads = 0,
                              !.out = Append(st.out, (st.left * 16) + (v \div 4))]
           [] st.q = 3 -> [st EXCEPT !.q = 0, !.left = 0, !.pads = 0,
                              !.out = Append(st.out, (st.left * 64) + v)]

RECURSIVE B64Run(_, _)
B64Run(st, text) ==
    IF text = <<>> THEN st ELSE B64Run(B64Step(st, Head(text)), Tail(text))

B64Final(text) ==
    B64Run([q |-> 0, left |-> 0, pads |-> 0, out |-> <<>>, stop |-> FALSE], text)

\* base64.b64decode(text) on a str: [ok |-> FALSE] stands for the raised
\* ValueError / binascii.Error
B64Decode(text) ==
    IF \E i \in 1..Len(text) : text[i] \in NonAscii
    THEN [ok |-> FALSE, bytes |-> <<>>,
          msg |-> <<"string argument should contain only ASCII characters">>]
    ELSE LET st == B64Final(text) IN
         IF st.q = 1
         THEN [ok |-> FALSE, bytes |-> <<>>,
               msg |-> <<"Invalid base64-encoded string: number of data characters cannot be 1 more than a multiple of 4">>]
         ELSE IF st.q # 0
         THEN [ok |-> FALSE, bytes |-> <<>>, msg |-> <<"Incorrect padding">>]
         ELSE [ok |-> TRUE, bytes |-> st.out, msg |-> <<>>]

\* the encoding without the "=" padding of the last group
RECURSIVE B64EncodeNoPad(_)
B64EncodeNoPad(bytes) ==
    IF bytes = <<>> THEN <<>>
    ELSE IF Len(bytes) = 1 THEN
        << B64Alphabet[(bytes[1] \div 4) + 1],
           B64Alphabet[((bytes[1] % 4) * 16) + 1] >>
    ELSE IF Len(bytes) = 2 THEN
        << B64Alphabet[(bytes[1] \div 4) + 1],
           B64Alphabet[((bytes[1] % 4) * 16) + (bytes[2] \div 16) + 1],
           B64Alphabet[((bytes[2] % 16) * 4) + 1] >>
    ELSE
        << B64Alphabet[(bytes[1] \div 4) + 1],
           B64Alphabet[((bytes[1] % 4) * 16) + (bytes[2] \div 16) + 1],
           B64Alphabet[((bytes[2] % 16) * 4) + (bytes[3] \div 64) + 1],
           B64Alphabet[(bytes[3] % 64) + 1] >>
        \o B64EncodeNoPad(SubSeq(bytes, 4, Len(bytes)))

\* base64.b64encode(bytes).decode('utf-8')
RECURSIVE B64Encode(_)
B64Encode(bytes) ==
    IF bytes = <<>> THEN <<>>
    ELSE IF Len(bytes) = 1 THEN
        << B64Alphabet[(bytes[1] \div 4) + 1],
           B64Alphabet[((bytes[1] % 4) * 16) + 1], "=", "=" >>
    ELSE IF Len(bytes) = 2 THEN
        << B64Alphabet[(bytes[1] \div 4) + 1],
           B64Alphabet[((bytes[1] % 4) * 16) + (bytes[2] \div 16) + 1],
           B64Alphabet[((bytes[2] % 16) * 4) + 1], "=" >>
    ELSE
        << B64Alphabet[(bytes[1] \div 4) + 1],
           B64Alphabet[((bytes[1] % 4) * 16) + (bytes[2] \div 16) + 1],
           B64Alphabet[((bytes[2] % 16) * 4) + (bytes[3] \div 64) + 1],
           B64Alphabet[(bytes[3] % 64) + 1] >>
        \o B64Encode(SubSeq(bytes, 4, Len(bytes)))

(* ------------------------------ paths -------------------------------- *)
\* datetime.now().strftime('%Y%m%d_%H%M%S'): the clock at one-second
\* resolution, as text
Timestamp(t) == ToString(t)

\* the name taken whole, its extension left in place
SplitExtKept(name) == << name, <<>> >>

\* os.path.splitext on one name: split at the last dot that has a
\* character other than a dot before it
SplitExt(name) ==
    LET dots == {i \in 1..Len(name) : name[i] = "."}
        last == IF dots = {} THEN 0 ELSE CHOOSE i \in dots : \A k \in dots : k <= i
    IN  IF last > 0 /\ \E i \in 1..(last - 1) : name[i] # "."
        THEN << SubSeq(name, 1, last - 1), SubSeq(name, last, Len(name)) >>
        ELSE << name, <<>> >>

\* os.path.basename / os.path.dirname
Basename(p) == p[Len(p)]

Dirname(p) == SubSeq(p, 1, Len(p) - 1)

\* p lies strictly beneath the directory d
Under(p, d) == Len(p) > Len(d) /\ SubSeq(p, 1, Len(d)) = d

\* line 68: os.path.join(temp_dir, f"input_{timestamp}_{filename}")
InputPath(t, filename) == << <<"input_", Timestamp(t), "_">> \o filename >>

\* line 104: os.path.join(temp_dir, f"demucs_output_{timestamp}")
OutputDir(t) == << <<"demucs_output_", Timestamp(t)>> >>

\* line 134: os.path.splitext(os.path.basename(input_path))[0]
InputStem(input_path) == SplitExt(Basename(input_path))[1]

\* line 135: the directory part of the primary pattern
PrimaryDir(output_dir, model, input_path) ==
    output_dir \o << <<model>>, InputStem(input_path) >>

\* the file-name pattern "no_vocals.*"
MatchesNoVocals(name) == Len(name) >= 2 /\ name[1] = "no_vocals" /\ name[2] = "."

(* --------------------------- file system ----------------------------- *)
DirEntry == [kind |-> "dir", data |-> <<>>, by |-> "-", src |-> "-"]

\* a regular file; by and src record which job wrote it and, for a stem the
\* tool wrote, whose input file the tool had read
FileEntry(data, j, from) == [kind |-> "file", data |-> data, by |-> j, src |-> from]

Exists(f, p) == p \in DOMAIN f

IsFile(f, p) == Exists(f, p) /\ f[p].kind = "file"

IsDir(f, p) == Exists(f, p) /\ f[p].kind = "dir"

\* the proper, non-empty prefixes of p and p itself
Ancestors(p) == {SubSeq(p, 1, n) : n \in 1..Len(p)}

\* os.makedirs(p, exist_ok=True)
MakeDirs(f, p) ==
    [q \in DOMAIN f \cup Ancestors(p) |-> IF q \in DOMAIN f THEN f[q] ELSE DirEntry]

\* open(p, 'wb') followed by write(data); the parent directories exist
WriteFile(f, p, entry) ==
    [q \in DOMAIN f \cup {p} |-> IF q = p THEN entry ELSE f[q]]

\* os.remove(p)
RemoveFile(f, p) == [q \in DOMAIN f \ {p} |-> f[q]]

\* shutil.rmtree(d)
RemoveTree(f, d) == [q \in {r \in DOMAIN f : r # d /\ ~Under(r, d)} |-> f[q]]

(* ------------------------- the job objects --------------------------- *)
\* dict.get(key, default)
Get(m, key, default) == IF key \in DOMAIN m THEN m[key] ELSE default

\* the texts a job may carry as audio_data: empty, characters outside the
\* alphabet only, one lone character, a character that is not ASCII, and
\* the encoding of the one byte 65
AudioData ==
    { <<>>, <<"!", "!">>, <<"Q">>, <<"U+00E9">>, <<"Q", "Q", "=", "=">> }

Filenames == { <<"a", ".", "w">> }

Methods == { "htdemucs" }

\* the "input" mappings: none, one, two or all three of the keys
InputMaps ==
    { <<>> }
    \cup { [audio_data |-> a] : a \in AudioData }
    \cup { [audio_data |-> a, filename |-> n] : a \in AudioData, n \in Filenames }
    \cup { [audio_data |-> a, filename |-> n, method |-> m] :
              a \in AudioData, n \in Filenames, m \in Methods }

\* the value None where a mapping is expected, written as a mapping that
\* has no get()
NoneInput == [none_value |-> <<>>]

\* the job objects: without an "input" key, with "input" set to None, or
\* with an input mapping
JobObjects ==
    { <<>>, [input |-> NoneInput] } \cup { [input |-> m] : m \in InputMaps }

DefaultFilename == <<"a", "u", "d", "i", "o", ".", "m", "p", "3">>

DefaultMethod == "htdemucs_ft"

\* subprocess.run(..., timeout=300)
ToolTimeout == 300

(* ------------------------------ state -------------------------------- *)
VARIABLES
    clock,      \* datetime.now(), in whole seconds
    device,     \* processor.device, set once in __init__
    fs,         \* the entries beneath processor.temp_dir
    frame,      \* per worker: the locals of handler() and of the call it is in
    hist        \* per worker: what the call has done so far (history only)

vars == <<clock, device, fs, frame, hist>>

\* the locals of one handler() call before its first statement
IdleFrame ==
    [ pc |-> "idle", job |-> <<>>, start_time |-> 0,
      audio_data |-> None, filename |-> <<>>, method |-> "",
      input_path |-> None, output_path |-> None, output_dir |-> None,
      result |-> [returncode |-> 0, stdout |-> "", stderr |-> ""],
      result_data |-> <<>>, err |-> <<>>, response |-> [none |-> TRUE] ]

\* trail: the stages executed; snap: the paths present when the call
\* started; overlapped: another call was in flight during this one;
\* rmfault: a removal of this call failed; encoded: the entry encode read;
\* refused: the existing paths cleanup_files could not remove
IdleHist ==
    [ trail |-> <<>>, snap |-> {}, overlapped |-> FALSE, rmfault |-> FALSE,
      encoded |-> DirEntry, refused |-> {} ]

InFlight(j) == frame[j].pc \notin {"idle", "done", "raised", "retired"}

Init ==
    /\ clock = 0
    /\ device \in {"cuda", "cpu"}
    /\ fs = <<>>
    /\ frame = [j \in Jobs |-> IdleFrame]
    /\ hist = [j \in Jobs |-> IdleHist]

\* the same exception raised outside of any try block: it leaves handler
RaiseEscapes(fr, e) == [fr EXCEPT !.pc = "raised", !.err = e]

\* an exception raised inside handler's try block: control passes to the
\* except clause of line 234 with the exception bound to e
Raise(fr, e) == [fr EXCEPT !.pc = "except", !.err = e]

Step(j, stage) == [hist EXCEPT ![j].trail = Append(@, stage)]

\* handler without the test of line 198
NoAudioNever(audio_data) == FALSE

\* line 198: not audio_data

NoAudio(audio_data) == Len(audio_data) = 0

(* ------------------------------ actions ------------------------------ *)
\* time passes
Tick ==
    /\ clock < MaxClock
    /\ clock' = clock + 1
    /\ UNCHANGED <<device, fs, frame, hist>>

\* lines 185-201: handler is called with a job object and reads its
\* parameters
Receive(j, jobs, earlier) ==
    /\ frame[j].pc = "idle"
    /\ \A k \in earlier : frame[k].pc = "retired"
    /\ \E job \in jobs :
        LET fr0 == [frame[j] EXCEPT !.job = job, !.start_time = clock]
            job_input == Get(job, "input", <<>>)
        IN  IF "none_value" \in DOMAIN job_input
            THEN frame' = [frame EXCEPT ![j] =
                     Raise(fr0, <<"'NoneType' object has no attribute 'get'">>)]
            ELSE LET fr1 == [fr0 EXCEPT
                            !.audio_data = Get(job_input, "audio_data", None),
                            !.filename = Get(job_input, "filename", DefaultFilename),
                            !.method = Get(job_input, "method", DefaultMethod)]
                 IN  IF NoAudio(fr1.audio_data)
                     THEN frame' = [frame EXCEPT ![j] = [fr1 EXCEPT
                              !.pc = "done",
                              !.response = [error |-> <<"No audio data provided">>]]]
                     ELSE frame' = [frame EXCEPT ![j] = [fr1 EXCEPT !.pc = "decode"]]
    /\ hist' = [k \in Jobs |->
                 IF k = j
                 THEN [hist[j] EXCEPT !.trail = <<"received">>,
                                      !.snap = DOMAIN fs,
                                      !.overlapped = InFlight(Other(j))]
                 ELSE [hist[k] EXCEPT !.overlapped = @ \/ InFlight(k)]]
    /\ UNCHANGED <<clock, device, fs>>

\* lines 204 and 64-80: decode_audio_file
Decode(j) ==
    /\ frame[j].pc = "decode"
    /\ LET fr == frame[j]
           file_path == InputPath(clock, fr.filename)
           decoded == B64Decode(fr.audio_data)
       IN  IF decoded.ok
           THEN /\ fs' = WriteFile(fs, file_path, FileEntry(decoded.bytes, j, j))
                /\ frame' = [frame EXCEPT ![j] =
                                [fr EXCEPT !.pc = "mkdir", !.input_path = file_path]]
           ELSE /\ fs' = fs
                /\ frame' = [frame EXCEPT ![j] = Raise(fr, decoded.msg)]
    /\ hist' = Step(j, "decode")
    /\ UNCHANGED <<clock, device>>

\* lines 207 and 101-105: remove_vocals_serverless allocates its output
\* directory
MakeOutputDir(j) ==
    /\ frame[j].pc = "mkdir"
    /\ fs' = MakeDirs(fs, OutputDir(clock))
    /\ frame' = [frame EXCEPT ![j] =
                    [@ EXCEPT !.pc = "run", !.output_dir = OutputDir(clock)]]
    /\ hist' = Step(j, "mkdir")
    /\ UNCHANGED <<clock, device>>

\* what the separation tool may do with its input: time out, exit non-zero,
\* or exit zero having written the stems in the documented layout, in
\* another layout, or without an accompaniment stem
ToolOutcomes(input_present) ==
    IF input_present THEN {"timeout", "nonzero", "primary", "alt", "none"}
    ELSE {"timeout", "nonzero", "none"}

\* the texts the tool may leave on standard error
StderrTexts == {"", "fatal: unknown model"}

\* the stems the tool computes from the bytes of its input file
NoVocalsStem(data) == <<0>> \o data

VocalsStem(data) == <<1>> \o data

\* the files one zero-exit run leaves under the directory given with -o
ToolWrites(f, outcome, output_dir, model, input_path, j) ==
    LET inp == f[input_path]
        documented == PrimaryDir(output_dir, model, input_path)
        other == output_dir \o << <<model>>, <<"track">> >>
        dir == IF outcome = "alt" THEN other ELSE documented
        f1 == MakeDirs(f, dir)
        f2 == WriteFile(f1, dir \o << <<"vocals", ".", "mp3">> >>,
                        FileEntry(VocalsStem(inp.data), j, inp.by))
    IN  IF outcome = "none" THEN (IF Exists(f, input_path) THEN f2 ELSE f)
        ELSE WriteFile(f2, dir \o << <<"no_vocals", ".", "mp3">> >>,
                       FileEntry(NoVocalsStem(inp.data), j, inp.by))

\* remove_vocals_serverless without the test of line 126
ToolFailedIgnored(result) == FALSE

\* line 126: result.returncode != 0

ToolFailed(result) == result.returncode # 0

\* str() of the subprocess.TimeoutExpired raised by line 124
TimeoutMessage ==
    <<"Command ", "python -m demucs", " timed out after ",
      ToString(ToolTimeout), " seconds">>

\* a TimeoutExpired that is caught and answered by running the tool again
OnTimeoutRetry(fr) == [fr EXCEPT !.pc = "run"]

\* a TimeoutExpired that is caught and dropped before the search
OnTimeoutContinue(fr) == [fr EXCEPT !.pc = "search"]

\* line 124: subprocess.run raises TimeoutExpired, which nothing in
\* remove_vocals_serverless handles other than by logging and re-raising

OnTimeout(fr) == Raise(fr, TimeoutMessage)

\* lines 108-131: the tool runs as a blocking subprocess.  The run is one
\* step; the time it takes is what Tick lets pass before and after it, and
\* whether it exceeded the timeout is the tool's outcome
RunTool(j) ==
    /\ frame[j].pc = "run"
    /\ LET fr == frame[j] IN
       \E outcome \in ToolOutcomes(IsFile(fs, fr.input_path)) :
         CASE outcome = "timeout" ->
                /\ fs' = fs
                /\ frame' = [frame EXCEPT ![j] = OnTimeout(fr)]
                /\ hist' = Step(j, "tool_timeout")
           [] outcome = "nonzero" ->
                \E text \in StderrTexts :
                  LET result == [returncode |-> 1, stdout |-> "Separating track",
                                 stderr |-> text]
                      fr1 == [fr EXCEPT !.result = result]
                  IN  /\ fs' = fs
                      /\ frame' = [frame EXCEPT ![j] =
                            IF ToolFailed(result)
                            THEN Raise(fr1, <<"Demucs processing failed: ", result.stderr>>)
                            ELSE [fr1 EXCEPT !.pc = "search"]]
                      /\ hist' = Step(j, "tool_nonzero")
           [] OTHER ->
                LET result == [returncode |-> 0, stdout |-> "Separating track",
                               stderr |-> ""]
                    fr1 == [fr EXCEPT !.result = result]
                IN  /\ fs' = ToolWrites(fs, outcome, fr.output_dir, fr.method,
                                        fr.input_path, j)
                    /\ frame' = [frame EXCEPT ![j] =
                          IF ToolFailed(result)
                          THEN Raise(fr1, <<"Demucs processing failed: ", result.stderr>>)
                          ELSE [fr1 EXCEPT !.pc = "search"]]
                    /\ hist' = Step(j, "tool_zero")
    /\ UNCHANGED <<clock, device>>

\* the glob of <output_dir>/<model>/*/no_vocals.*, any stem directory
PrimaryMatchesAnyStem(f, output_dir, model, input_path) ==
    { p \in DOMAIN f : /\ Len(p) = Len(output_dir) + 3
                       /\ Under(p, output_dir \o << <<model>> >>)
                       /\ MatchesNoVocals(Basename(p)) }

\* lines 135-137: glob of <output_dir>/<model>/<input stem>/no_vocals.*
PrimaryMatches(f, output_dir, model, input_path) ==
    { p \in DOMAIN f : /\ Dirname(p) = PrimaryDir(output_dir, model, input_path)
                       /\ MatchesNoVocals(Basename(p)) }

\* the recursive glob rooted at temp_dir instead of output_dir
FallbackMatchesAnywhere(f, output_dir) ==
    { p \in DOMAIN f : MatchesNoVocals(Basename(p)) }

\* lines 140-141: recursive glob of <output_dir>/**/no_vocals.*

FallbackMatches(f, output_dir) ==
    { p \in DOMAIN f : Under(p, output_dir) /\ MatchesNoVocals(Basename(p)) }

\* lines 133-149: the artifact is looked up; glob's order is not
\* specified, so matching_files[0] is any of the matches
FindOutput(j) ==
    /\ frame[j].pc = "search"
    /\ LET fr == frame[j]
           primary == PrimaryMatches(fs, fr.output_dir, fr.method, fr.input_path)
           fallback == FallbackMatches(fs, fr.output_dir)
           matching_files == IF primary # {} THEN primary ELSE fallback
           searched == IF primary # {} THEN <<"search_primary">>
                       ELSE <<"search_primary", "search_fallback">>
       IN  /\ hist' = [hist EXCEPT ![j].trail = @ \o searched]
           /\ IF matching_files = {}
              THEN frame' = [frame EXCEPT ![j] =
                                Raise(fr, <<"Could not find Demucs output file">>)]
              ELSE \E p \in matching_files :
                     frame' = [frame EXCEPT ![j] =
                                  [fr EXCEPT !.pc = "encode", !.output_path = p]]
    /\ UNCHANGED <<clock, device, fs>>

\* lines 210 and 82-94: encode_audio_file; the read fails when the file is
\* gone or the device reports an error
Encode(j, faults) ==
    /\ frame[j].pc = "encode"
    /\ LET fr == frame[j] IN
       \E ioerror \in faults :
         IF IsFile(fs, fr.output_path) /\ ~ioerror
         THEN /\ frame' = [frame EXCEPT ![j] =
                   [fr EXCEPT !.pc = "respond",
                              !.result_data = B64Encode(fs[fr.output_path].data)]]
              /\ hist' = [hist EXCEPT ![j].trail = Append(@, "encode"),
                                      ![j].encoded = fs[fr.output_path]]
         ELSE /\ frame' = [frame EXCEPT ![j] =
                   Raise(fr, IF IsFile(fs, fr.output_path)
                             THEN <<"[Errno 5] Input/output error">>
                             ELSE <<"[Errno 2] No such file or directory">>)]
              /\ hist' = Step(j, "encode")
    /\ UNCHANGED <<clock, device, fs>>

\* cleanup_files with one try around the whole loop: the first removal
\* that raises ends the loop
RECURSIVE cleanup_files_one_try(_, _, _)
cleanup_files_one_try(f, file_paths, failing) ==
    IF file_paths = <<>> THEN f
    ELSE LET file_path == Head(file_paths) IN
         IF Exists(f, file_path) /\ file_path \in failing THEN f
         ELSE LET g == IF ~Exists(f, file_path) THEN f
                       ELSE IF IsFile(f, file_path) THEN RemoveFile(f, file_path)
                       ELSE IF IsDir(f, file_path) THEN RemoveTree(f, file_path)
                       ELSE f
              IN  cleanup_files_one_try(g, Tail(file_paths), failing)

\* lines 155-166: cleanup_files; a removal of a path in failing raises and
\* the exception is logged and swallowed
RECURSIVE cleanup_files(_, _, _)
cleanup_files(f, file_paths, failing) ==
    IF file_paths = <<>> THEN f
    ELSE LET file_path == Head(file_paths)
             g == IF ~Exists(f, file_path) \/ file_path \in failing THEN f
                  ELSE IF IsFile(f, file_path) THEN RemoveFile(f, file_path)
                  ELSE IF IsDir(f, file_path) THEN RemoveTree(f, file_path)
                  ELSE f
         IN  cleanup_files(g, Tail(file_paths), failing)

\* lines 213-232: the success response is built, cleanup runs, handler
\* returns
Respond(j, faults) ==
    /\ frame[j].pc = "respond"
    /\ LET fr == frame[j]
           paths == << fr.input_path, Dirname(fr.output_path) >>
       IN  \E failing \in (IF TRUE \in faults THEN SUBSET Range(paths) ELSE {{}}) :
             /\ fs' = cleanup_files(fs, paths, failing)
             /\ frame' = [frame EXCEPT ![j] = [fr EXCEPT
                   !.pc = "done",
                   !.response =
                     [ success |-> TRUE,
                       processed_audio |-> fr.result_data,
                       processing_time |-> clock - fr.start_time,
                       method |-> fr.method,
                       gpu_used |-> device,
                       output_filename |->
                           SplitExt(fr.filename)[1] \o <<"_no_vocals", ".", "wav">>,
                       timestamp |-> clock,
                       serverless |-> TRUE ]]]
             /\ hist' = [hist EXCEPT
                   ![j].trail = Append(@, "cleanup"),
                   ![j].rmfault = \E p \in failing : Exists(fs, p),
                   ![j].refused = {p \in failing : Exists(fs, p)}]
    /\ UNCHANGED <<clock, device>>

\* the except clause without its removal of the input file
ErrorCleanupSkipped(f, input_path, removable) == f

\* lines 237-242: if input_path: os.remove(input_path), any exception of
\* the removal swallowed
ErrorCleanup(f, input_path, removable) ==
    IF input_path # None /\ IsFile(f, input_path) /\ removable
    THEN RemoveFile(f, input_path) ELSE f

\* lines 234-252: the except clause removes the input file, if decode had
\* returned one, and returns the failure response
HandleError(j, faults) ==
    /\ frame[j].pc = "except"
    /\ LET fr == frame[j] IN
       \E removable \in {~x : x \in faults} :
         /\ fs' = ErrorCleanup(fs, fr.input_path, removable)
         /\ frame' = [frame EXCEPT ![j] = [fr EXCEPT
               !.pc = "done",
               !.response =
                 [ success |-> FALSE,
                   error |-> fr.err,
                   processing_time |-> clock - fr.start_time,
                   timestamp |-> clock,
                   serverless |-> TRUE ]]]
         /\ hist' = [hist EXCEPT
               ![j].trail = Append(@, "cleanup_on_error"),
               ![j].rmfault = fr.input_path # None /\ IsFile(fs, fr.input_path)
                              /\ ~removable]
    /\ UNCHANGED <<clock, device>>

\* the runtime has taken the response and the call's locals are gone; each
\* worker of the model serves one job
Return(j) ==
    /\ frame[j].pc = "done"
    /\ frame' = [frame EXCEPT ![j] = [IdleFrame EXCEPT !.pc = "retired"]]
    /\ hist' = [hist EXCEPT ![j] = IdleHist]
    /\ UNCHANGED <<clock, device, fs>>

\* reads and removals may fail
Faults == {FALSE, TRUE}

\* two jobs, one after the other: j2 arrives when j1 has returned
Next ==
    \/ Tick
    \/ Receive("j1", JobObjects, {})
    \/ Receive("j2", JobObjects, {"j1"})
    \/ \E j \in Jobs : Decode(j)
    \/ \E j \in Jobs : MakeOutputDir(j)
    \/ \E j \in Jobs : RunTool(j)
    \/ \E j \in Jobs : FindOutput(j)
    \/ \E j \in Jobs : Encode(j, Faults)
    \/ \E j \in Jobs : Respond(j, Faults)
    \/ \E j \in Jobs : HandleError(j, Faults)
    \/ \E j \in Jobs : Return(j)

Spec == Init /\ [][Next]_vars

\* two jobs in flight at once on one scratch root; the file system works
NoFaults == {FALSE}

\* the jobs given to concurrent workers: decodable audio (the byte 65 or
\* the byte 66), with or without a file name
PairJobObjects ==
    { [input |-> [audio_data |-> <<"Q", "Q", "=", "=">>]],
      [input |-> [audio_data |-> <<"Q", "g", "=", "=">>]],
      [input |-> [audio_data |-> <<"Q", "Q", "=", "=">>, filename |-> <<"a", ".", "w">>]] }

InitPair == Init /\ device = "cuda"

NextPair ==
    \/ Tick
    \/ \E j \in Jobs : Receive(j, PairJobObjects, {})
    \/ \E j \in Jobs : Decode(j)
    \/ \E j \in Jobs : MakeOutputDir(j)
    \/ \E j \in Jobs : RunTool(j)
    \/ \E j \in Jobs : FindOutput(j)
    \/ \E j \in Jobs : Encode(j, NoFaults)
    \/ \E j \in Jobs : Respond(j, NoFaults)
    \/ \E j \in Jobs : HandleError(j, NoFaults)
    \/ \E j \in Jobs : Return(j)

SpecPair == InitPair /\ [][NextPair]_vars

(* the codec on its own: decode_audio_file, then encode_audio_file on the
   file it wrote *)
CodecChars == {"Q", "U", "=", "!"}

CodecTexts == UNION { [1..n -> CodecChars] : n \in 0..MaxTextLen }

InitCodec ==
    /\ clock = 0
    /\ device = "cpu"
    /\ fs = <<>>
    /\ hist = [j \in Jobs |-> IdleHist]
    /\ \E text \in CodecTexts :
         frame = [j \in Jobs |->
                    IF j = "j1"
                    THEN [IdleFrame EXCEPT !.pc = "decode", !.audio_data = text,
                                           !.filename = DefaultFilename]
                    ELSE IdleFrame]

\* lines 82-94 on the path decode_audio_file returned
EncodeDecoded(j) ==
    /\ frame[j].pc = "mkdir"
    /\ frame' = [frame EXCEPT ![j] =
          [@ EXCEPT !.pc = "roundtrip",
                    !.result_data = B64Encode(fs[frame[j].input_path].data)]]
    /\ hist' = [hist EXCEPT ![j].trail = Append(@, "encode"),
                            ![j].encoded = fs[frame[j].input_path]]
    /\ UNCHANGED <<clock, device, fs>>

NextCodec ==
    \/ Decode("j1")
    \/ EncodeDecoded("j1")

SpecCodec == InitCodec /\ [][NextCodec]_vars

TypeOK ==
    /\ clock \in 0..MaxClock
    /\ \A j \in Jobs : frame[j].pc \in
         {"idle", "decode", "mkdir", "run", "search", "encode", "respond",
          "except", "done", "retired"}

(* ------------------------------ claims ------------------------------- *)
Done(j) == frame[j].pc = "done"

Response(j) == frame[j].response

Did(j, stage) == stage \in Range(hist[j].trail)

Has(r, key) == key \in DOMAIN r

IsFailure(r) == Has(r, "success") /\ r.success = FALSE

\* C1: when handler returns, the entries under the scratch root are those
\* that were there when the call started (no other call in flight, no
\* removal refused by the file system)
C1_CleanupInvariant ==
    \A j \in Jobs :
        (Done(j) /\ ~hist[j].overlapped /\ ~hist[j].rmfault)
            => DOMAIN fs = hist[j].snap

\* the position of a call in handler(): every step moves it forward
Rank(pc) ==
    CASE pc = "idle" -> 0 [] pc = "decode" -> 1 [] pc = "mkdir" -> 2
      [] pc = "run" -> 3 [] pc = "search" -> 4 [] pc = "encode" -> 5
      [] pc = "respond" -> 6 [] pc = "except" -> 7 [] pc = "done" -> 8
      [] pc = "raised" -> 8 [] pc = "retired" -> 9

\* C2: no exception leaves handler: a call never ends in a raise, a call
\* that has ended holds a response mapping, and every step of a call moves
\* it forward, so that it ends
C2_NeverRaises ==
    /\ [](\A j \in Jobs :
            /\ frame[j].pc # "raised"
            /\ Done(j) => (~Has(Response(j), "none") /\ DOMAIN Response(j) # {}))
    /\ [][\A j \in Jobs :
            frame'[j].pc # frame[j].pc => Rank(frame'[j].pc) > Rank(frame[j].pc)]_vars

\* a call whose read of the artifact failed has returned a failure response
C2_Witness ==
    \E j \in Jobs : Done(j) /\ Did(j, "encode") /\ IsFailure(Response(j))

SuccessShape(r) ==
    /\ {"success", "processed_audio", "processing_time", "method", "gpu_used",
        "output_filename", "timestamp"} \subseteq DOMAIN r
    /\ r.success = TRUE
    /\ ~Has(r, "error")

FailureShape(r) ==
    /\ {"success", "error", "processing_time", "timestamp"} \subseteq DOMAIN r
    /\ r.success = FALSE
    /\ r.error # <<>>
    /\ ~Has(r, "processed_audio")

\* C3: every response has the success shape or the failure shape
C3_ResponseShape ==
    \A j \in Jobs : Done(j) => (SuccessShape(Response(j)) \/ FailureShape(Response(j)))

\* C4: two jobs in flight at the same time never hold the same decoded input
\* path nor the same output directory
C4_WorkspaceUnique ==
    \A j \in Jobs :
        (InFlight(j) /\ InFlight(Other(j))) =>
            /\ (frame[j].input_path # None) => frame[j].input_path # frame[Other(j)].input_path
            /\ (frame[j].output_dir # None) => frame[j].output_dir # frame[Other(j)].output_dir

\* the cleanup of a call: the step that ends it
CleansUp(j) == frame[j].pc \in {"respond", "except"} /\ frame'[j].pc = "done"

\* C5: the cleanup of one job never removes the input file another job wrote
\* and has not yet given to the tool, nor the artifact another job's tool
\* wrote and that job has not yet encoded
C5_NoCrossCleanup ==
    [][ \A j \in Jobs :
          LET k == Other(j) IN
          CleansUp(j) =>
            /\ ( /\ frame[k].pc \in {"mkdir", "run"}
                 /\ IsFile(fs, frame[k].input_path)
                 /\ fs[frame[k].input_path].by = k )
               => Exists(fs', frame[k].input_path)
            /\ ( /\ frame[k].pc = "encode"
                 /\ IsFile(fs, frame[k].output_path)
                 /\ fs[frame[k].output_path].by = k )
               => Exists(fs', frame[k].output_path) ]_vars

\* the job carries an input mapping (or none at all) without audio_data, or
\* with an empty one
LacksAudio(job) ==
    LET job_input == Get(job, "input", <<>>) IN
    /\ ~Has(job_input, "none_value")
    /\ Len(Get(job_input, "audio_data", None)) = 0

\* C6: a job without audio_data is answered "No audio data provided" and
\* nothing is processed: no stage runs and the scratch root is untouched
C6_FailFast ==
    \A j \in Jobs :
        (frame[j].pc \notin {"idle", "retired"} /\ LacksAudio(frame[j].job)) =>
            /\ Done(j)
            /\ Has(Response(j), "error")
            /\ Response(j).error = <<"No audio data provided">>
            /\ hist[j].trail = <<"received">>
            /\ DOMAIN fs = hist[j].snap

C6_Witness ==
    \E j \in Jobs :
        /\ Done(j) /\ LacksAudio(frame[j].job)
        /\ Has(frame[j].job, "input")
        /\ Response(j).error = <<"No audio data provided">>

\* C7: after a non-zero exit of the tool the response is a failure whose
\* error holds the tool's standard-error text, and no artifact search runs
C7_NonZeroExit ==
    \A j \in Jobs :
        Did(j, "tool_nonzero") =>
            /\ frame[j].pc \in {"except", "done"}
            /\ ~Did(j, "search_primary") /\ ~Did(j, "search_fallback")
            /\ Done(j) =>
                 /\ IsFailure(Response(j))
                 /\ frame[j].result.stderr \in Range(Response(j).error)

C7_Witness ==
    \E j \in Jobs :
        /\ Done(j) /\ Did(j, "tool_nonzero")
        /\ Response(j).error = <<"Demucs processing failed: ", "fatal: unknown model">>

\* C8: after a timeout of the tool the job neither searches nor encodes and
\* its response is a failure whose error tells of the timeout
C8_TimeoutFails ==
    \A j \in Jobs :
        Did(j, "tool_timeout") =>
            /\ frame[j].pc \in {"except", "done"}
            /\ ~Did(j, "search_primary") /\ ~Did(j, "search_fallback")
            /\ ~Did(j, "encode")
            /\ Done(j) =>
                 /\ IsFailure(Response(j))
                 /\ " timed out after " \in Range(Response(j).error)

C8_Witness ==
    \E j \in Jobs :
        Done(j) /\ Did(j, "tool_timeout") /\ IsFailure(Response(j))

\* no entry named no_vocals.* lies beneath the directory d
NoArtifactUnder(f, d) ==
    \A p \in DOMAIN f : Under(p, d) => ~MatchesNoVocals(Basename(p))

NotFoundMessage == <<"Could not find Demucs output file">>

\* C9: when the search runs (the tool has exited zero) and nothing named
\* no_vocals.* lies under the job's output directory, the search raises
\* "Could not find Demucs output file", and that error goes into a failure
\* response without any encoding
C9_OutputNotFound ==
    [][ \A j \in Jobs :
          /\ ( /\ frame[j].pc = "search" /\ frame'[j].pc # "search"
               /\ NoArtifactUnder(fs, frame[j].output_dir) )
             => (frame'[j].pc = "except" /\ frame'[j].err = NotFoundMessage)
          /\ ( /\ frame[j].pc = "except" /\ frame'[j].pc # "except"
               /\ frame[j].err = NotFoundMessage )
             => /\ Done(j)'
                /\ IsFailure(Response(j)')
                /\ Response(j)'.error = NotFoundMessage
                /\ ~Did(j, "encode")' ]_vars

C9_Witness ==
    \E j \in Jobs :
        /\ Done(j) /\ Did(j, "tool_zero") /\ ~Did(j, "encode")
        /\ Response(j).error = NotFoundMessage
        /\ NoArtifactUnder(fs, frame[j].output_dir)

\* a non-empty text without any character of the base64 alphabet
Garbage(text) ==
    /\ Len(text) > 0
    /\ \A i \in 1..Len(text) : ~IsB64Char(text[i]) /\ text[i] # "="

\* C10: a job whose audio_data is garbage fails at the decoding stage: no
\* file is written, the tool is not invoked, the response is a failure
C10_GarbageFailsAtDecode ==
    \A j \in Jobs :
        (Did(j, "decode") /\ Garbage(frame[j].audio_data)) =>
            /\ frame[j].pc \in {"except", "done"}
            /\ frame[j].input_path = None
            /\ Done(j) => IsFailure(Response(j))

\* the output file name expected for each file name a job may carry
ExpectedOutputFilename(filename) ==
    IF filename = <<"a", ".", "w">>
    THEN <<"a", "_no_vocals", ".", "wav">>
    ELSE <<"a", "u", "d", "i", "o", "_no_vocals", ".", "wav">>

\* C11: a successful response has success = true, a processed_audio that
\* decodes back to exactly the bytes of the artifact that was located and
\* read, and the request's file name without its extension followed by
\* "_no_vocals.wav" as output_filename
C11_SuccessResponse ==
    \A j \in Jobs :
        (Done(j) /\ Did(j, "cleanup")) =>
            /\ Has(Response(j), "success") /\ Response(j).success = TRUE
            /\ Did(j, "tool_zero") /\ Did(j, "encode")
            /\ MatchesNoVocals(Basename(frame[j].output_path))
            /\ B64Decode(Response(j).processed_audio).ok
            /\ B64Decode(Response(j).processed_audio).bytes = hist[j].encoded.data
            /\ Len(Response(j).processed_audio) = 4 * ((Len(hist[j].encoded.data) + 2) \div 3)
            /\ Response(j).output_filename = ExpectedOutputFilename(frame[j].filename)

\* a job named a.w succeeded and returned the encoding of the two bytes 0, 65
C11_Witness ==
    \E j \in Jobs :
        /\ Done(j) /\ Did(j, "cleanup")
        /\ frame[j].filename = <<"a", ".", "w">>
        /\ hist[j].encoded.data = <<0, 65>>
        /\ Response(j).processed_audio = <<"A", "E", "E", "=">>

\* the two paths the success path hands to cleanup_files
CleanupPaths(j) == {frame[j].input_path, Dirname(frame[j].output_path)}

\* C12: cleanup is best effort: whatever removals fail, the call that
\* reached cleanup_files returns its success response, every path whose
\* removal did not fail is gone with all that lay beneath it, and a path the
\* file system refused to remove is still there
C12_CleanupBestEffort ==
    \A j \in Jobs :
        (Done(j) /\ Did(j, "cleanup")) =>
            /\ Has(Response(j), "success") /\ Response(j).success = TRUE
            /\ ~Has(Response(j), "error")
            /\ hist[j].refused \subseteq CleanupPaths(j)
            /\ \A p \in CleanupPaths(j) :
                 IF p \in hist[j].refused
                 THEN Exists(fs, p)
                 ELSE \A q \in DOMAIN fs : q # p /\ ~Under(q, p)

\* the removal of the input file failed, the stem directory was removed all
\* the same, and the response is the success response
C12_Witness ==
    \E j \in Jobs :
        /\ Done(j) /\ Did(j, "cleanup")
        /\ hist[j].refused = {frame[j].input_path}
        /\ Exists(fs, frame[j].input_path)
        /\ ~Exists(fs, Dirname(frame[j].output_path))
        /\ Response(j).success = TRUE

\* a text that is the base64 encoding of some bytes (RFC 4648): groups of
\* four characters of the alphabet, the last group ending in no, one or two
\* "=" with the unused bits of its last character zero
Canonical(text) ==
    LET n == Len(text) IN
    /\ n > 0 /\ n % 4 = 0
    /\ \A i \in 1..(n - 2) : IsB64Char(text[i])
    /\ \/ IsB64Char(text[n - 1]) /\ IsB64Char(text[n])
       \/ /\ IsB64Char(text[n - 1]) /\ text[n] = "="
          /\ B64Val(text[n - 1]) % 4 = 0
       \/ /\ text[n - 1] = "=" /\ text[n] = "="
          /\ B64Val(text[n - 2]) % 16 = 0

\* C13: for a valid non-empty encoded payload, decode_audio_file succeeds
\* and encode_audio_file on the file it wrote returns the payload
C13_RoundTrip ==
    \A j \in Jobs :
        (Did(j, "decode") /\ Canonical(frame[j].audio_data)) =>
            /\ frame[j].pc # "except"
            /\ IsFile(fs, frame[j].input_path)
            /\ frame[j].pc = "roundtrip" => frame[j].result_data = frame[j].audio_data

C13_Witness ==
    \E j \in Jobs :
        /\ frame[j].pc = "roundtrip"
        /\ frame[j].audio_data = <<"Q", "U", "Q", "=">>
        /\ fs[frame[j].input_path].data = <<65, 68>>
        /\ frame[j].result_data = <<"Q", "U", "Q", "=">>

\* the stage of the per-job state machine a step of the trail belongs to
StageOf(step) ==
    CASE step = "received" -> "Received"
      [] step = "decode" -> "Decoding"
      [] step \in {"mkdir", "tool_timeout", "tool_nonzero", "tool_zero",
                   "search_primary", "search_fallback"} -> "Separating"
      [] step = "encode" -> "Encoding"
      [] step \in {"cleanup", "cleanup_on_error"} -> "Cleaning"

\* the stages of a trail, a run of steps of one stage counted once
RECURSIVE StageSeq(_)
StageSeq(trail) ==
    IF Len(trail) = 0 THEN <<>>
    ELSE IF Len(trail) = 1 THEN <<StageOf(trail[1])>>
    ELSE LET rest == StageSeq(Tail(trail)) IN
         IF StageOf(trail[1]) = Head(rest) THEN rest
         ELSE <<StageOf(trail[1])>> \o rest

WorkStages == <<"Received", "Decoding", "Separating", "Encoding">>

ToolSteps == {"tool_timeout", "tool_nonzero", "tool_zero"}

\* the stages are a prefix of Received, Decoding, Separating, Encoding, then
\* possibly Cleaning; no step happens twice, the tool runs after decode has
\* returned a path, encoding follows a zero exit and a located artifact, and
\* nothing follows Cleaning but the return
StagesInOrder(j) ==
    LET trail == hist[j].trail
        stages == StageSeq(trail)
    IN  /\ \E n \in 0..4 :
              \/ stages = SubSeq(WorkStages, 1, n)
              \/ stages = SubSeq(WorkStages, 1, n) \o <<"Cleaning">>
        /\ Cardinality(Range(trail)) = Len(trail)
        /\ Cardinality(Range(trail) \cap ToolSteps) <= 1
        /\ (Range(trail) \cap ToolSteps # {}) =>
              (Did(j, "decode") /\ frame[j].input_path # None)
        /\ Did(j, "encode") =>
              (Did(j, "tool_zero") /\ frame[j].output_path # None)
        /\ (trail # <<>> /\ StageOf(trail[Len(trail)]) = "Cleaning") => Done(j)

EndsWithCleaning(j) ==
    /\ hist[j].trail # <<>>
    /\ StageOf(hist[j].trail[Len(hist[j].trail)]) = "Cleaning"

\* C14 as stated: the stages run in order and every call that has returned
\* has executed the Cleaning step
C14_StateMachine ==
    \A j \in Jobs : StagesInOrder(j) /\ (Done(j) => EndsWithCleaning(j))

\* C14: the stages run in order; a call that has returned has executed the
\* Cleaning step, unless its job had no audio_data: that call returns from
\* Received without any other step
C14_StateMachineAmended ==
    \A j \in Jobs :
        /\ StagesInOrder(j)
        /\ Done(j) =>
             IF LacksAudio(frame[j].job)
             THEN hist[j].trail = <<"received">>
             ELSE EndsWithCleaning(j)

\* a call has gone through all five stages and returned
C14_Witness ==
    \E j \in Jobs :
        /\ Done(j)
        /\ StageSeq(hist[j].trail) = WorkStages \o <<"Cleaning">>

\* neither the directory d nor anything beneath it exists
Released(f, d) == \A p \in DOMAIN f : p # d /\ ~Under(p, d)

\* C15: when a call that had allocated its output directory returns a
\* failure, that directory and all beneath it are gone
C15_FailureReleasesOutputDir ==
    \A j \in Jobs :
        (Done(j) /\ IsFailure(Response(j)) /\ Did(j, "mkdir")) =>
            Released(fs, frame[j].output_dir)

\* C16: when a call returns success and no removal was refused, the decoded
\* input file and the whole output directory are gone
C16_SuccessReleasesWorkspace ==
    \A j \in Jobs :
        (Done(j) /\ Did(j, "cleanup") /\ ~hist[j].rmfault) =>
            /\ ~Exists(fs, frame[j].input_path)
            /\ Released(fs, frame[j].output_dir)

\* the documented location <output_dir>/<model>/<input stem> of job j holds
\* an entry named no_vocals.*
PrimaryHolds(j) ==
    \E p \in DOMAIN fs :
        /\ Dirname(p) = PrimaryDir(frame[j].output_dir, frame[j].method,
                                   frame[j].input_path)
        /\ MatchesNoVocals(Basename(p))

\* C17: the search looks at the documented location first and returns a
\* match from there when there is one, without the recursive search; it
\* runs the recursive search only when that location has no match; every
\* path it returns is an existing no_vocals.* under the job's output
\* directory
C17_DiscoveryOrder ==
    [][ \A j \in Jobs :
          (frame[j].pc = "search" /\ frame'[j].pc # "search") =>
            /\ Did(j, "search_primary")'
            /\ PrimaryHolds(j) =>
                 /\ frame'[j].pc = "encode"
                 /\ ~Did(j, "search_fallback")'
                 /\ Dirname(frame'[j].output_path) =
                      PrimaryDir(frame[j].output_dir, frame[j].method,
                                 frame[j].input_path)
            /\ ~PrimaryHolds(j) => Did(j, "search_fallback")'
            /\ frame'[j].pc = "encode" =>
                 /\ Under(frame'[j].output_path, frame[j].output_dir)
                 /\ Exists(fs, frame'[j].output_path)
                 /\ MatchesNoVocals(Basename(frame'[j].output_path)) ]_vars

\* the recursive search has returned an artifact that lies outside the
\* documented location
C17_Witness ==
    \E j \in Jobs :
        /\ frame[j].pc = "encode"
        /\ Did(j, "search_fallback")
        /\ Under(frame[j].output_path, frame[j].output_dir)
        /\ Dirname(frame[j].output_path) #
             PrimaryDir(frame[j].output_dir, frame[j].method, frame[j].input_path)

\* the positions of the trail at which the tool was invoked
ToolRuns(j) == {i \in 1..Len(hist[j].trail) : hist[j].trail[i] \in ToolSteps}

\* C18: the tool is invoked at most once per call, and after a timeout or a
\* non-zero exit the only step left is the return of the failure response
C18_NoRetry ==
    \A j \in Jobs :
        /\ Cardinality(ToolRuns(j)) <= 1
        /\ \A i \in ToolRuns(j) :
             hist[j].trail[i] \in {"tool_timeout", "tool_nonzero"} =>
                /\ SubSeq(hist[j].trail, i + 1, Len(hist[j].trail))
                      \in {<<>>, <<"cleanup_on_error">>}
                /\ frame[j].pc \in {"except", "done"}
                /\ Done(j) => IsFailure(Response(j))

\* the tool was invoked once, exited non-zero, and the failure is returned
C18_Witness ==
    \E j \in Jobs :
        /\ Done(j)
        /\ Cardinality(ToolRuns(j)) = 1
        /\ Did(j, "tool_nonzero")
        /\ hist[j].trail[Len(hist[j].trail)] = "cleanup_on_error"

\* C19: when a call whose decode had returned a path returns a failure and
\* the removal was not refused, the decoded input file does not exist
C19_FailureRemovesInput ==
    \A j \in Jobs :
        (Done(j) /\ IsFailure(Response(j)) /\ frame[j].input_path # None
                 /\ ~hist[j].rmfault) =>
            ~Exists(fs, frame[j].input_path)

\* the artifact could not be read, and the input file is gone at the return
C19_Witness ==
    \E j \in Jobs :
        /\ Done(j) /\ IsFailure(Response(j))
        /\ Did(j, "encode")
        /\ frame[j].input_path # None
        /\ ~Exists(fs, frame[j].input_path)
        /\ Exists(fs, frame[j].output_dir)

\* C20: the audio returned to a job is the encoding of an artifact that the
\* job's own tool run wrote from the input file the job itself had written,
\* and no tool run reads an input file another job wrote
C20_ResultIsolation ==
    /\ \A p \in DOMAIN fs : fs[p].kind = "file" => fs[p].src = fs[p].by
    /\ \A j \in Jobs :
         (Done(j) /\ Did(j, "cleanup")) =>
            /\ hist[j].encoded.by = j
            /\ hist[j].encoded.src = j
            /\ B64Decode(Response(j).processed_audio).bytes =
                  NoVocalsStem(B64Decode(frame[j].audio_data).bytes)

====
